---- MODULE Spec2Model ----
(***************************************************************************)
(* Workflow "powerups" of matmethods/vasp/vasp_powerups.py and the LAMMPS  *)
(* workflow builders of matmethods/lammps/workflows/core.py.               *)
(*                                                                         *)
(* Strings are modelled as sequences of tokens (a token is an indivisible  *)
(* run of characters), so that Python's substring test, string             *)
(* concatenation and get_slug are computed, not assumed.  A Python dict is *)
(* a function whose DOMAIN is its key set, so "key in dict" is             *)
(* "key \in DOMAIN dict".  An optional argument is a set: {} is None and   *)
(* {v} is the supplied value v.  Indices of the source (0-based) are kept  *)
(* 0-based in the (firework-index, task-index) pairs; TLA+ sequences are   *)
(* indexed from 1, hence the +1 at every subscript.                        *)
(***************************************************************************)
EXTENDS Integers, Sequences, FiniteSets, TLC

VARIABLES wf,      \* the workflow object the caller currently holds
          prev,    \* the workflow object passed to the last powerup call
          last,    \* the last powerup call: its name, arguments and outcome
          ncalls,  \* number of powerup calls made so far
          lmp      \* the last LAMMPS builder call and what it returned

vars == <<wf, prev, last, ncalls, lmp>>

(* ------------------------------ bounds -------------------------------- *)
MaxFws == 2
MaxTasks == 2
MaxCalls == 2

(* --------------------------- Python helpers --------------------------- *)

\* Python's "sub in s" on strings
Contains(sub, s) ==
    \E i \in 0..(Len(s) - Len(sub)) : SubSeq(s, i + 1, i + Len(sub)) = sub

\* dict[k] = v
SetKey(d, k, v) == [x \in (DOMAIN d) \cup {k} |-> IF x = k THEN v ELSE d[x]]

\* Python's list.insert(i, x): a negative i counts from the end, and the
\* position is clamped to 0..len
PyInsert(lst, i, x) ==
    LET n == Len(lst)
        j == IF i < 0 THEN (IF i + n < 0 THEN 0 ELSE i + n)
                      ELSE (IF i > n THEN n ELSE i)
    IN  SubSeq(lst, 1, j) \o <<x>> \o SubSeq(lst, j + 1, n)

\* Python's "a or b" for an optional integer a
PyOr(a, b) ==
    IF a = {} THEN b
    ELSE LET v == CHOOSE y \in a : TRUE IN IF v = 0 THEN b ELSE v

RECURSIVE ConcatAll(_)
ConcatAll(ss) == IF ss = <<>> THEN <<>> ELSE Head(ss) \o ConcatAll(Tail(ss))

RECURSIVE SeqsUpTo(_, _)
SeqsUpTo(S, n) ==
    IF n = 0 THEN {<<>>}
    ELSE LET shorter == SeqsUpTo(S, n - 1)
         IN  shorter \cup {Append(s, e) : s \in shorter, e \in S}

(* ---------------------- the orchestration library --------------------- *)

\* A task object: its class name and its parameter dict
Task(cls, params) == [cls |-> cls, params |-> params]

\* FireTask.to_dict(): the parameters plus the class name under "_fw_name"
TaskToDict(t) == SetKey(t.params, "_fw_name", t.cls)

\* load_object(dict): the task object a serialized task stands for
TaskFromDict(d) ==
    Task(d["_fw_name"], [k \in (DOMAIN d) \ {"_fw_name"} |-> d[k]])

\* str(task): the class name and the parameter values; "needle in str(task)"
StrContains(needle, t) ==
    \/ Contains(needle, t.cls)
    \/ \E k \in DOMAIN t.params : Contains(needle, t.params[k])

TasksToDicts(tasks) == [i \in 1..Len(tasks) |-> TaskToDict(tasks[i])]

\* Firework(tasks, spec, name, fw_id): keeps the task objects and puts their
\* serialized form in spec["_tasks"]
Firework(tasks, spec, name, fw_id) ==
    [fw_id |-> fw_id, name |-> name, tasks |-> tasks,
     spec |-> SetKey(spec, "_tasks", TasksToDicts(tasks))]

\* Firework.to_dict(): the spec as it stands, the name and the id
FwToDict(fw) == [fw_id |-> fw.fw_id, name |-> fw.name, spec |-> fw.spec]

\* Firework.from_dict(): the tasks are rebuilt from spec["_tasks"]
FwFromDict(d) ==
    Firework([i \in 1..Len(d.spec["_tasks"]) |-> TaskFromDict(d.spec["_tasks"][i])],
             d.spec, d.name, d.fw_id)

\* Workflow.to_dict() / Workflow.from_dict()
ToDict(w) ==
    [fws |-> [i \in 1..Len(w.fws) |-> FwToDict(w.fws[i])],
     links |-> w.links, name |-> w.name]

FromDict(d) ==
    [fws |-> [i \in 1..Len(d.fws) |-> FwFromDict(d.fws[i])],
     links |-> d.links, name |-> d.name]

\* Workflow.root_fw_ids: the ids no link points to
root_fw_ids(w) ==
    {w.fws[i].fw_id : i \in 1..Len(w.fws)}
        \ UNION {w.links[p] : p \in DOMAIN w.links}

\* get_slug: drop the characters that are not valid in a file name, then
\* replace each blank by an underscore
ValidChars == {"FW--", "static", "structure", "optimization", "band", "gap", " "}
get_slug(m_str) ==
    LET kept == SelectSeq(m_str, LAMBDA c : c \in ValidChars)
    IN  [i \in 1..Len(kept) |-> IF kept[i] = " " THEN "_" ELSE kept[i]]

(* ------------------------- task constructors -------------------------- *)
RunVaspDirect(vasp_cmd) ==
    Task(<<"RunVasp", "Direct">>, [vasp_cmd |-> vasp_cmd])
RunVaspCustodian(params) == Task(<<"RunVasp", "Custodian">>, params)
RunVaspFake(fake_dir) == Task(<<"RunVasp", "Fake">>, [fake_dir |-> fake_dir])
ModifyIncar(params) == Task(<<"Modify", "Incar">>, params)
\* FileWriteTask(files_to_write=[{"filename": fname, "contents": contents}]),
\* the one file's two entries kept as two parameters
FileWriteTask(fname, contents) ==
    Task(<<"FileWrite", "Task">>, [filename |-> fname, contents |-> contents])
WriteVaspFromIOSet == Task(<<"WriteVasp", "FromIOSet">>, [x \in {} |-> <<>>])

Tracker(filename) == [filename |-> filename, nlines |-> 25, allow_zipped |-> TRUE]

\* fake_dirs of matmethods.vasp.tests.vasp_fake: job-type label -> directory
fake_dirs ==
    (<<"structure", " ", "optimization">> :> <<"dir_A">>)
        @@ (<<"static">> :> <<"dir_B">>)

\* fake_dirs.keys(): the labels in some iteration order
KeyOrders ==
    {o \in [1..Cardinality(DOMAIN fake_dirs) -> DOMAIN fake_dirs] :
        \A i, j \in DOMAIN o : i # j => o[i] # o[j]}

(* ----------------------------- powerups ------------------------------- *)

is_runvasp_task(task) == StrContains(<<"RunVasp">>, task)

\* the (idx_fw, idx_t) pairs of one Firework for one matching label
TaskPairs(idx_fw, fw) ==
    LET idxs == SelectSeq([i \in 1..Len(fw.tasks) |-> i - 1],
                          LAMBDA i : is_runvasp_task(fw.tasks[i + 1]))
    IN  [k \in 1..Len(idxs) |-> <<idx_fw, idxs[k]>>]

\* The scan of get_runvasp_fws_and_tasks with fake_dirs.keys() iterated in the
\* order keys.  The list does not depend on that order (KeyOrderIrrelevant):
\* every matching label contributes the same run-task pairs of its Firework.
PairsInOrder(workflow, keys) ==
    ConcatAll([f \in 1..Len(workflow.fws) |->
        ConcatAll([j \in 1..Len(keys) |->
            IF Contains(keys[j], workflow.fws[f].name)
            THEN TaskPairs(f - 1, workflow.fws[f])
            ELSE <<>>])])

get_runvasp_fws_and_tasks(workflow) ==
    PairsInOrder(workflow, CHOOSE o \in KeyOrders : TRUE)

decorate_priority(original_wf, root_priority, child_priority) ==
    LET cp == PyOr(child_priority, root_priority)
        roots == root_fw_ids(original_wf)
    IN  [original_wf EXCEPT !.fws =
            [i \in 1..Len(original_wf.fws) |->
                LET fw == original_wf.fws[i]
                IN  [fw EXCEPT !.spec =
                        SetKey(fw.spec, "_priority",
                               IF fw.fw_id \in roots THEN root_priority ELSE cp)]]]


\* wf_dict["fws"][idx_fw]["spec"]["_tasks"][idx_t] = task_dict
SetTaskDict(wf_dict, idx_fw, idx_t, task_dict) ==
    [wf_dict EXCEPT !.fws[idx_fw + 1].spec =
        SetKey(@, "_tasks", [@["_tasks"] EXCEPT ![idx_t + 1] = task_dict])]

\* fault variant of FilterAccepts: the name filter is ignored
FilterAcceptsAll(fw_name_filter, name) == TRUE

\* "fw_name_filter is None or fw_name_filter in name"
FilterAccepts(fw_name_filter, name) ==
    fw_name_filter = {} \/ \E F \in fw_name_filter : Contains(F, name)

\* the loop of use_custodian over the matched pairs; raised is the KeyError
\* of the unguarded ["vasp_cmd"] lookup
RECURSIVE CustodianLoop(_, _, _, _)
CustodianLoop(wf_dict, pairs, fw_name_filter, custodian_params) ==
    IF pairs = <<>> THEN [raised |-> FALSE, wf_dict |-> wf_dict]
    ELSE LET idx_fw == Head(pairs)[1]
             idx_t == Head(pairs)[2]
             fwd == wf_dict.fws[idx_fw + 1]
             old == fwd.spec["_tasks"][idx_t + 1]
         IN  IF FilterAccepts(fw_name_filter, fwd.name)
             THEN IF "vasp_cmd" \in DOMAIN custodian_params
                  THEN CustodianLoop(
                           SetTaskDict(wf_dict, idx_fw, idx_t,
                               TaskToDict(RunVaspCustodian(custodian_params))),
                           Tail(pairs), fw_name_filter, custodian_params)
                  ELSE IF "vasp_cmd" \notin DOMAIN old
                       THEN [raised |-> TRUE, wf_dict |-> wf_dict]
                       ELSE CustodianLoop(
                                SetTaskDict(wf_dict, idx_fw, idx_t,
                                    TaskToDict(RunVaspCustodian(
                                        SetKey(custodian_params, "vasp_cmd",
                                               old["vasp_cmd"])))),
                                Tail(pairs), fw_name_filter, custodian_params)
             ELSE CustodianLoop(wf_dict, Tail(pairs), fw_name_filter,
                                custodian_params)

\* use_custodian: [raised, wf]; when the lookup raises, nothing is returned
\* and the caller keeps original_wf
use_custodian(original_wf, fw_name_filter, custodian_params) ==
    LET r == CustodianLoop(ToDict(original_wf),
                           get_runvasp_fws_and_tasks(original_wf),
                           fw_name_filter, custodian_params)
    IN  IF r.raised THEN [raised |-> TRUE, wf |-> original_wf]
        ELSE [raised |-> FALSE, wf |-> FromDict(r.wf_dict)]

\* fault variant of FakeLoop: the test "job_type in fw.name" is missing
RECURSIVE FakeLoopAnyName(_, _, _)
FakeLoopAnyName(task_dicts, fw, keys) ==
    IF keys = <<>> THEN task_dicts
    ELSE FakeLoopAnyName(
             [i \in 1..Len(task_dicts) |->
                 IF i <= Len(fw.tasks) /\ is_runvasp_task(fw.tasks[i])
                 THEN TaskToDict(RunVaspFake(fake_dirs[Head(keys)]))
                 ELSE task_dicts[i]],
             fw, Tail(keys))

\* make_fake_workflow, one Firework: the loop over the job types, each
\* matching job type overwriting the entries at the run-task indices
RECURSIVE FakeLoop(_, _, _)
FakeLoop(task_dicts, fw, keys) ==
    IF keys = <<>> THEN task_dicts
    ELSE LET job_type == Head(keys)
             replaced ==
                 IF Contains(job_type, fw.name)
                 THEN [i \in 1..Len(task_dicts) |->
                          IF i <= Len(fw.tasks) /\ is_runvasp_task(fw.tasks[i])
                          THEN TaskToDict(RunVaspFake(fake_dirs[job_type]))
                          ELSE task_dicts[i]]
                 ELSE task_dicts
         IN  FakeLoop(replaced, fw, Tail(keys))

make_fake_workflow(original_wf, keys) ==
    LET wf_dict == ToDict(original_wf)
    IN  FromDict([wf_dict EXCEPT !.fws =
            [i \in 1..Len(wf_dict.fws) |->
                [wf_dict.fws[i] EXCEPT !.spec =
                    SetKey(@, "_tasks",
                           FakeLoop(@["_tasks"], original_wf.fws[i], keys))]]])

\* fault variant of WriteNameFw: the marker task is appended, not put first
WriteNameFwAppend(fw, use_slug) ==
    LET raw == <<"FW--">> \o fw.name
        fname == IF use_slug THEN get_slug(raw) ELSE raw
    IN  [fw EXCEPT !.spec =
            SetKey(@, "_tasks",
                   Append(@["_tasks"], TaskToDict(FileWriteTask(fname, <<>>))))]

\* decorate_write_name, one Firework
WriteNameFw(fw, use_slug) ==
    LET raw == <<"FW--">> \o fw.name
        fname == IF use_slug THEN get_slug(raw) ELSE raw
    IN  [fw EXCEPT !.spec =
            SetKey(@, "_tasks",
                   PyInsert(@["_tasks"], 0,
                            TaskToDict(FileWriteTask(fname, <<>>))))]

decorate_write_name(original_wf, use_slug) ==
    [original_wf EXCEPT !.fws =
        [i \in 1..Len(original_wf.fws) |-> WriteNameFw(original_wf.fws[i], use_slug)]]

tracker1 == Tracker(<<"OUTCAR">>)
tracker2 == Tracker(<<"OSZICAR">>)

\* add_trackers: the loop over the matched pairs
RECURSIVE TrackersLoop(_, _)
TrackersLoop(wf_dict, pairs) ==
    IF pairs = <<>> THEN wf_dict
    ELSE LET idx_fw == Head(pairs)[1]
             spec == wf_dict.fws[idx_fw + 1].spec
             trackers == IF "_trackers" \in DOMAIN spec
                         THEN spec["_trackers"] \o <<tracker1, tracker2>>
                         ELSE <<tracker1, tracker2>>
         IN  TrackersLoop(
                 [wf_dict EXCEPT !.fws[idx_fw + 1].spec =
                     SetKey(spec, "_trackers", trackers)],
                 Tail(pairs))

add_trackers(original_wf) ==
    FromDict(TrackersLoop(ToDict(original_wf),
                          get_runvasp_fws_and_tasks(original_wf)))

\* add_modify_incar: the loop over the matched pairs, inserting in place
RECURSIVE ModifyIncarLoop(_, _, _, _)
ModifyIncarLoop(w, pairs, modify_incar_params, fw_name_filter) ==
    IF pairs = <<>> THEN w
    ELSE LET idx_fw == Head(pairs)[1]
             idx_t == Head(pairs)[2]
         IN  IF FilterAccepts(fw_name_filter, w.fws[idx_fw + 1].name)
             THEN ModifyIncarLoop(
                      [w EXCEPT !.fws[idx_fw + 1].spec =
                          SetKey(@, "_tasks",
                              PyInsert(@["_tasks"], idx_t - 1,
                                  TaskToDict(ModifyIncar(modify_incar_params))))],
                      Tail(pairs), modify_incar_params, fw_name_filter)
             ELSE ModifyIncarLoop(w, Tail(pairs), modify_incar_params,
                                  fw_name_filter)

add_modify_incar(original_wf, modify_incar_params, fw_name_filter) ==
    ModifyIncarLoop(original_wf, get_runvasp_fws_and_tasks(original_wf),
                    modify_incar_params, fw_name_filter)

(* ------------------------- initial workflows -------------------------- *)
Names ==
    { <<"band", "/", "gap">>,
      <<"static">>,
      <<"structure", " ", "optimization">>,
      <<"structure", " ", "optimization", " ", "static">> }

InitTaskLists ==
    SeqsUpTo({WriteVaspFromIOSet, RunVaspDirect(<<"vasp">>)}, MaxTasks) \ {<<>>}

InitSpecs == { [x \in {} |-> <<>>], [_trackers |-> <<Tracker(<<"vasp.out">>)>>] }

\* a workflow of n Fireworks built from the same initial spec; Firework i+1
\* is either a root or a child of Firework i
InitWorkflows ==
    UNION { { [fws |-> [i \in 1..n |->
                          Firework(tl[i], sp, nm[i], i)],
               links |-> [i \in 1..n |->
                          IF i < n /\ ch[i] THEN {i + 1} ELSE {}],
               name |-> <<"wf">>] :
              tl \in [1..n -> InitTaskLists], sp \in InitSpecs,
              nm \in [1..n -> Names], ch \in [1..n -> BOOLEAN] } :
            n \in 1..MaxFws }

NoCall == [op |-> "none"]

Init ==
    /\ wf \in InitWorkflows
    /\ prev = wf
    /\ last = NoCall
    /\ ncalls = 0
    /\ lmp = NoCall

Called(result, call) ==
    /\ ncalls < MaxCalls
    /\ wf' = result
    /\ prev' = wf
    /\ last' = call
    /\ ncalls' = ncalls + 1
    /\ UNCHANGED lmp

RootPriorities == {2}
ChildPriorities == {{}, {0}, {3}}
NameFilters == {{}, {<<"static">>}}
CustodianParams == { [x \in {} |-> <<>>], [vasp_cmd |-> <<"vasp_std">>] }
ModifyIncarParams == { [key_update |-> <<">>incar_update<<">>] }

DecoratePriority ==
    \E r \in RootPriorities, c \in ChildPriorities :
        Called(decorate_priority(wf, r, c),
               [op |-> "decorate_priority", root_priority |-> r,
                child_priority |-> c])

UseCustodian ==
    \E F \in NameFilters, p \in CustodianParams :
        LET r == use_custodian(wf, F, p)
        IN  Called(r.wf,
                   [op |-> "use_custodian", fw_name_filter |-> F,
                    custodian_params |-> p, raised |-> r.raised])

MakeFakeWorkflow ==
    \E keys \in KeyOrders :
        Called(make_fake_workflow(wf, keys), [op |-> "make_fake_workflow"])

DecorateWriteName ==
    \E use_slug \in BOOLEAN :
        Called(decorate_write_name(wf, use_slug),
               [op |-> "decorate_write_name", use_slug |-> use_slug])

AddTrackers ==
    Called(add_trackers(wf), [op |-> "add_trackers"])

AddModifyIncar ==
    \E F \in NameFilters, p \in ModifyIncarParams :
        Called(add_modify_incar(wf, p, F),
               [op |-> "add_modify_incar", fw_name_filter |-> F,
                modify_incar_params |-> p])

Next ==
    \/ DecoratePriority
    \/ UseCustodian
    \/ MakeFakeWorkflow
    \/ DecorateWriteName
    \/ AddTrackers
    \/ AddModifyIncar

Spec == Init /\ [][Next]_vars

(* ----------------------- LAMMPS workflow builders --------------------- *)

\* the files the template constructors can read
ExistingFiles == {<<"template.json">>, <<"nvt.data">>}

\* DictLammpsInput.from_file(...) and NVTLammpsInput(...): the constructor
\* raises when a file it has to read is missing, else it returns the input
\* object built from its arguments
DictLammpsInput_from_file(job_name, input_template_file, lammps_data, data_filename, user_lammps_settings, is_forcefield) ==
    [raised |-> ~({input_template_file, lammps_data} \subseteq ExistingFiles),
     obj |-> [ctor |-> "DictLammpsInput.from_file", name |-> job_name,
              template |-> input_template_file, lammps_data |-> lammps_data,
              data_filename |-> data_filename,
              user_lammps_settings |-> user_lammps_settings,
              is_forcefield |-> is_forcefield]]

NVTLammpsInput(lammps_data, data_filename, user_lammps_settings, is_forcefield) ==
    [raised |-> lammps_data \notin ExistingFiles,
     obj |-> [ctor |-> "NVTLammpsInput", name |-> <<"NVT">>,
              template |-> <<"nvt.json">>, lammps_data |-> lammps_data,
              data_filename |-> data_filename,
              user_lammps_settings |-> user_lammps_settings,
              is_forcefield |-> is_forcefield]]

WritelammpsInputFromDictInput(lammps_dict_input, input_file) ==
    Task(<<"Writelammps", "InputFromDictInput">>,
         [lammps_dict_input |-> lammps_dict_input, input_file |-> input_file])

RunLammpsDirect(lammps_cmd) ==
    Task(<<"RunLammps", "Direct">>, [lammps_cmd |-> lammps_cmd])

\* Workflow([fw1], name)
Workflow1(fw1, name) ==
    [fws |-> <<fw1>>, links |-> [i \in {1} |-> {}], name |-> name]

NoWorkflow == [fws |-> <<>>, links |-> <<>>, name |-> <<>>]

\* a keyword argument: the supplied value, or the default of the signature
Arg(supplied, default) ==
    IF supplied = {} THEN default ELSE CHOOSE v \in supplied : TRUE

wf_from_input_template(job_name, input_template_file, lammps_data, data_filename, user_settings, is_forcefield, input_filename, lammps_bin) ==
    LET lammps_dict_input ==
            DictLammpsInput_from_file(job_name, input_template_file, lammps_data,
                                      data_filename, user_settings, is_forcefield)
        task1 == WritelammpsInputFromDictInput(lammps_dict_input.obj, input_filename)
        task2 == RunLammpsDirect(lammps_bin \o <<" -in ">> \o input_filename)
        fw1 == Firework(<<task1, task2>>, [x \in {} |-> <<>>], <<"Run lammps">>, 1)
    IN  IF lammps_dict_input.raised THEN [raised |-> TRUE, wf |-> NoWorkflow]
        ELSE [raised |-> FALSE,
              wf |-> Workflow1(fw1, <<"LAMMPS Wflow from input template ">>
                                        \o input_template_file)]

\* fault variant of nvt_wf: the binary is run on the data file
nvt_wf_on_data_file(data_input, input_filename, data_filename, user_lammps_settings, is_forcefield, lammps_bin) ==
    LET lammps_dict_input ==
            NVTLammpsInput(data_input, data_filename, user_lammps_settings,
                           is_forcefield)
        task1 == WritelammpsInputFromDictInput(lammps_dict_input.obj, input_filename)
        task2 == RunLammpsDirect(lammps_bin \o <<" -in ">> \o data_filename)
        fw1 == Firework(<<task1, task2>>, [x \in {} |-> <<>>], <<"Run lammps">>, 1)
    IN  IF lammps_dict_input.raised THEN [raised |-> TRUE, wf |-> NoWorkflow]
        ELSE [raised |-> FALSE, wf |-> Workflow1(fw1, <<"LAMMPS NVT">>)]

nvt_wf(data_input, input_filename, data_filename, user_lammps_settings, is_forcefield, lammps_bin) ==
    LET lammps_dict_input ==
            NVTLammpsInput(data_input, data_filename, user_lammps_settings,
                           is_forcefield)
        task1 == WritelammpsInputFromDictInput(lammps_dict_input.obj, input_filename)
        task2 == RunLammpsDirect(lammps_bin \o <<" -in ">> \o input_filename)
        fw1 == Firework(<<task1, task2>>, [x \in {} |-> <<>>], <<"Run lammps">>, 1)
    IN  IF lammps_dict_input.raised THEN [raised |-> TRUE, wf |-> NoWorkflow]
        ELSE [raised |-> FALSE, wf |-> Workflow1(fw1, <<"LAMMPS NVT">>)]

TemplateFiles == {<<"template.json">>, <<"missing.json">>}
DataInputs == {<<"nvt.data">>, <<"missing.data">>}
UserSettings == {<<>>, <<"run 1000">>}
InputFilenames == {{}, {<<"in.lmp">>}, {<<"run", " ", "2.inp">>}}
LammpsBins == {{}, {<<"lmp_serial">>}}

InitLammps ==
    /\ wf = NoWorkflow
    /\ prev = NoWorkflow
    /\ last = NoCall
    /\ ncalls = 0
    /\ lmp = NoCall

WfFromInputTemplate ==
    \E t \in TemplateFiles, d \in DataInputs, u \in UserSettings,
       ff \in BOOLEAN, f \in InputFilenames, b \in LammpsBins :
        LET r == wf_from_input_template(<<"job">>, t, d, <<"in.data">>, u, ff,
                                        Arg(f, <<"lammps.inp">>),
                                        Arg(b, <<"lammps">>))
        IN  /\ lmp' = [op |-> "wf_from_input_template", input_template_file |-> t,
                       lammps_data |-> d, user_settings |-> u, is_forcefield |-> ff,
                       input_filename |-> f, lammps_bin |-> b,
                       raised |-> r.raised, wf |-> r.wf]
            /\ UNCHANGED <<wf, prev, last, ncalls>>

NvtWf ==
    \E d \in DataInputs, u \in UserSettings, ff \in BOOLEAN,
       f \in InputFilenames, b \in LammpsBins :
        LET r == nvt_wf(d, Arg(f, <<"nvt.inp">>), <<"in.data">>, u, ff,
                        Arg(b, <<"lammps">>))
        IN  /\ lmp' = [op |-> "nvt_wf", input_template_file |-> <<>>,
                       lammps_data |-> d, user_settings |-> u, is_forcefield |-> ff,
                       input_filename |-> f, lammps_bin |-> b,
                       raised |-> r.raised, wf |-> r.wf]
            /\ UNCHANGED <<wf, prev, last, ncalls>>

NextLammps == WfFromInputTemplate \/ NvtWf

SpecLammps == InitLammps /\ [][NextLammps]_vars

(* ------------------------------ sanity -------------------------------- *)

\* the iteration order of fake_dirs.keys() does not change the pair list
KeyOrderIrrelevant ==
    \A o \in KeyOrders : PairsInOrder(wf, o) = get_runvasp_fws_and_tasks(wf)

\* spec["_tasks"] is never shorter than the task list, so the indices taken
\* from the task objects never fall outside spec["_tasks"] (no IndexError)
IndicesInRange ==
    \A i \in 1..Len(wf.fws) :
        Len(wf.fws[i].tasks) <= Len(wf.fws[i].spec["_tasks"])

(* ------------------------------ claims -------------------------------- *)

\* the trackers a Firework spec holds (none when the key is absent)
TrackersOf(spec) ==
    IF "_trackers" \in DOMAIN spec THEN spec["_trackers"] ELSE <<>>

\* a serialized task is a run-task
IsRunDict(d) == is_runvasp_task(TaskFromDict(d))

\* the name contains a job-type label of fake_dirs
HasLabel(name) == \E L \in DOMAIN fake_dirs : Contains(L, name)

\* the Firework at position i of w has a matched run-task
Matched(w, i) ==
    \E k \in DOMAIN get_runvasp_fws_and_tasks(w) :
        get_runvasp_fws_and_tasks(w)[k][1] = i - 1

SameShape == Len(wf.fws) = Len(prev.fws)

\* C1: after decorate_priority(W, r, c) every Firework whose id is a root id
\* has spec["_priority"] = r and every other Firework has spec["_priority"] = c,
\* or r when c is not supplied.
C1_PriorityAsConfigured ==
    last.op = "decorate_priority" =>
        \A i \in 1..Len(wf.fws) :
            wf.fws[i].spec["_priority"] =
                IF wf.fws[i].fw_id \in root_fw_ids(prev) \/ last.child_priority = {}
                THEN last.root_priority
                ELSE CHOOSE c \in last.child_priority : TRUE

\* C2: after add_trackers(W) the tracker list of every Firework with a matched
\* run-task is its previous tracker list followed by the OUTCAR and the
\* OSZICAR tracker, each appended exactly once.
C2_TrackersAppendedOnce ==
    last.op = "add_trackers" =>
        /\ SameShape
        /\ \A i \in 1..Len(wf.fws) :
               Matched(prev, i) =>
                   TrackersOf(wf.fws[i].spec) =
                       TrackersOf(prev.fws[i].spec) \o <<tracker1, tracker2>>

\* C3: after use_custodian(W, fw_name_filter=F) or add_modify_incar(W, params,
\* fw_name_filter=F), every Firework whose name does not contain F serializes
\* to the same name, the same task sequence and the same spec as before.
C3_FilterFrame ==
    (last.op \in {"use_custodian", "add_modify_incar"} /\ last.fw_name_filter # {}) =>
        /\ SameShape
        /\ \A i \in 1..Len(wf.fws) :
               (\A F \in last.fw_name_filter : ~Contains(F, prev.fws[i].name)) =>
                   FwToDict(wf.fws[i]) = FwToDict(prev.fws[i])

\* C3 witness: a filtered use_custodian call returned, it changed a Firework
\* whose name contains the filter, and it met a Firework with a matched
\* run-task whose name does not contain the filter.
C3_Witness ==
    /\ last.op = "use_custodian"
    /\ last.fw_name_filter = {<<"static">>}
    /\ ~last.raised
    /\ \E i \in 1..Len(prev.fws) :
           /\ ~Contains(<<"static">>, prev.fws[i].name)
           /\ Matched(prev, i)
    /\ \E j \in 1..Len(prev.fws) :
           /\ Contains(<<"static">>, prev.fws[j].name)
           /\ FwToDict(wf.fws[j]) # FwToDict(prev.fws[j])

\* C4: after make_fake_workflow(W) each run-task of a Firework whose name
\* contains a job-type label is replaced, at the same index, by a replay task
\* whose fake_dir is the directory of a label the name contains; every
\* Firework keeps its number of tasks and every other task its index and
\* content.
C4_FakeReplacesRunTasks ==
    last.op = "make_fake_workflow" =>
        /\ SameShape
        /\ \A i \in 1..Len(wf.fws) :
               LET old == prev.fws[i].spec["_tasks"]
                   new == wf.fws[i].spec["_tasks"]
                   name == prev.fws[i].name
               IN  /\ Len(new) = Len(old)
                   /\ \A k \in 1..Len(old) :
                          IF IsRunDict(old[k]) /\ HasLabel(name)
                          THEN \E L \in DOMAIN fake_dirs :
                                   /\ Contains(L, name)
                                   /\ new[k] = TaskToDict(RunVaspFake(fake_dirs[L]))
                          ELSE new[k] = old[k]

\* C5: after add_modify_incar(W, params) with no name filter, in the
\* serialized task list of every Firework that runs VASP each run-task is
\* immediately preceded by a ModifyIncar task.
C5_ModifyIncarJustBefore ==
    (last.op = "add_modify_incar" /\ last.fw_name_filter = {}) =>
        \A i \in 1..Len(wf.fws) :
            Matched(prev, i) =>
                LET ts == wf.fws[i].spec["_tasks"]
                IN  \A k \in 1..Len(ts) :
                        IsRunDict(ts[k]) =>
                            /\ k > 1
                            /\ ts[k - 1] =
                                   TaskToDict(ModifyIncar(last.modify_incar_params))

\* C6: after use_custodian(W) with no name filter, no Firework of the returned
\* workflow holds a RunVasp-type task that is not a RunVaspCustodian.
C6_AllRunVaspAreCustodian ==
    (last.op = "use_custodian" /\ last.fw_name_filter = {} /\ ~last.raised) =>
        \A i \in 1..Len(wf.fws) :
            \A k \in 1..Len(wf.fws[i].tasks) :
                is_runvasp_task(wf.fws[i].tasks[k]) =>
                    wf.fws[i].tasks[k].cls = <<"RunVasp", "Custodian">>

\* the file name decorate_write_name is documented to write for a Firework
\* name: "FW--<fw.name>", with the characters that are invalid in a file name
\* dropped and the blanks replaced by "_" when use_slug is set
MarkerName(name, use_slug) ==
    LET raw == <<"FW--">> \o name
    IN  IF use_slug THEN get_slug(raw) ELSE raw

\* C7: after decorate_write_name(W) the serialized task list of every Firework
\* begins with a file-write task writing an empty file named "FW--<fw.name>"
\* (slugged when use_slug is true), followed by the previous serialized tasks
\* in their order, each one position later.
C7_WriteNameFirst ==
    last.op = "decorate_write_name" =>
        /\ SameShape
        /\ \A i \in 1..Len(wf.fws) :
               wf.fws[i].spec["_tasks"] =
                   <<[_fw_name |-> <<"FileWrite", "Task">>,
                      filename |-> MarkerName(prev.fws[i].name, last.use_slug),
                      contents |-> <<>>]>>
                       \o prev.fws[i].spec["_tasks"]

\* C7 witness: decorate_write_name ran with use_slug on a Firework that already
\* had two serialized tasks and whose name the slug changes.
C7_Witness ==
    /\ last.op = "decorate_write_name"
    /\ last.use_slug
    /\ \E i \in 1..Len(prev.fws) :
           /\ Len(prev.fws[i].spec["_tasks"]) >= 2
           /\ get_slug(prev.fws[i].name) # prev.fws[i].name
           /\ Len(wf.fws[i].spec["_tasks"]) = Len(prev.fws[i].spec["_tasks"]) + 1

LmpInputFilename ==
    IF lmp.input_filename # {} THEN CHOOSE v \in lmp.input_filename : TRUE
    ELSE IF lmp.op = "nvt_wf" THEN <<"nvt.inp">> ELSE <<"lammps.inp">>

LmpBin ==
    IF lmp.lammps_bin # {} THEN CHOOSE v \in lmp.lammps_bin : TRUE
    ELSE <<"lammps">>

\* C9: for every input the template constructor accepts, wf_from_input_template
\* and nvt_wf return a workflow of exactly one Firework with exactly two
\* tasks: the write-input-file task for input_filename, then the run task
\* whose command is lammps_bin, " -in " and the same input_filename; the
\* builders differ only in the template constructor and the workflow name.
C9_TwoTaskPipeline ==
    (lmp.op \in {"wf_from_input_template", "nvt_wf"} /\ ~lmp.raised) =>
        /\ Len(lmp.wf.fws) = 1
        /\ lmp.wf.fws[1].name = <<"Run lammps">>
        /\ Len(lmp.wf.fws[1].tasks) = 2
        /\ lmp.wf.fws[1].tasks[1].cls = <<"Writelammps", "InputFromDictInput">>
        /\ DOMAIN lmp.wf.fws[1].tasks[1].params = {"lammps_dict_input", "input_file"}
        /\ lmp.wf.fws[1].tasks[1].params.input_file = LmpInputFilename
        /\ lmp.wf.fws[1].tasks[1].params.lammps_dict_input.ctor =
               (IF lmp.op = "nvt_wf" THEN "NVTLammpsInput"
                                     ELSE "DictLammpsInput.from_file")
        /\ lmp.wf.fws[1].tasks[2] =
               [cls |-> <<"RunLammps", "Direct">>,
                params |-> [lammps_cmd |->
                               LmpBin \o <<" -in ">> \o LmpInputFilename]]
        /\ lmp.wf.fws[1].spec["_tasks"] = TasksToDicts(lmp.wf.fws[1].tasks)
        /\ lmp.wf.name =
               (IF lmp.op = "nvt_wf" THEN <<"LAMMPS NVT">>
                ELSE <<"LAMMPS Wflow from input template ">>
                         \o lmp.input_template_file)

\* C9 witness: nvt_wf returned a workflow for an input file name given by the
\* caller, with the default binary.
C9_Witness ==
    /\ lmp.op = "nvt_wf"
    /\ ~lmp.raised
    /\ lmp.input_filename = {<<"run", " ", "2.inp">>}
    /\ lmp.lammps_bin = {}
    /\ Len(lmp.wf.fws) = 1

\* C10: after any sequence of powerup calls, spec["_tasks"] of every Firework
\* mirrors its task list: same length, same tasks at the same indices.
C10_SpecTasksMirrorTasks ==
    \A i \in 1..Len(wf.fws) :
        wf.fws[i].spec["_tasks"] = TasksToDicts(wf.fws[i].tasks)
====
